---- MODULE Spec2Model ----
(***************************************************************************)
(* shuttle: the launcher's search session (ShuttleApp / LoadedState), the  *)
(* background loader thread (create_app / load_items) and the item cache.  *)
(*                                                                         *)
(* Strings are sequences of one-character strings.  Option<T> is a         *)
(* sequence of length 0 (None) or 1 (Some(v)), so that iterating an        *)
(* Option, as the code does, is iterating that sequence.  Indices into     *)
(* Vec are 0-based as in the source; TLA+ sequences are 1-based, hence the *)
(* "+ 1" where a Vec is indexed.                                           *)
(***************************************************************************)
EXTENDS Integers, Sequences, FiniteSets, TLC

(***************************************************************************)
(* Bounds of the model.                                                    *)
(***************************************************************************)
\* longest query the user types
MaxQuery == 3
\* most input events egui delivers in one frame
MaxEvents == 2
\* number of times the program is started
MaxRuns == 2
\* bits of a fuzzy score (the source's ScoreType is i64)
ScoreBits == 3

(***************************************************************************)
(* Characters.  CapSigma, SmallSigma and FinalSigma stand for U+03A3,      *)
(* U+03C3 and U+03C2: the one letter whose lower case depends on where it  *)
(* stands in the word.                                                     *)
(***************************************************************************)
CapSigma == "S"
SmallSigma == "s"
FinalSigma == "z"

None == <<>>
Some(v) == <<v>>

\* char::is_cased, over the characters of the model
Cased(c) == c \in {"a", "A", CapSigma, SmallSigma, FinalSigma}

\* Unicode scalar value of a character: String's Ord compares by it
CodePoint(c) ==
    CASE c = " " -> 32
      [] c = "/" -> 47
      [] c = "1" -> 49
      [] c = "2" -> 50
      [] c = "A" -> 65
      [] c = "_" -> 95
      [] c = "a" -> 97
      [] c = "g" -> 103
      [] c = "j" -> 106
      [] c = CapSigma -> 931
      [] c = FinalSigma -> 962
      [] c = SmallSigma -> 963

\* str::to_lowercase: every character maps to its lower case on its own,
\* except capital sigma, which becomes the final sigma when it ends a word
\* (a cased letter before it, none after it) and the small sigma otherwise.
ToLowercase(s) ==
    [i \in 1..Len(s) |->
        CASE s[i] = "A" -> "a"
          [] s[i] = CapSigma ->
                IF i > 1 /\ Cased(s[i - 1]) /\ ~(i < Len(s) /\ Cased(s[i + 1]))
                THEN FinalSigma
                ELSE SmallSigma
          [] OTHER -> s[i]]

\* str::contains: part is a contiguous substring of hay
Contains(hay, part) ==
    \E k \in 0..(Len(hay) - Len(part)) :
        \A i \in 1..Len(part) : hay[k + i] = part[i]

\* str::split_whitespace: the maximal runs of non-space characters
SplitWhitespace(q) ==
    {SubSeq(q, i, j) : <<i, j>> \in
        {p \in (1..Len(q)) \X (1..Len(q)) :
            /\ p[1] <= p[2]
            /\ \A k \in p[1]..p[2] : q[k] # " "
            /\ (p[1] = 1 \/ q[p[1] - 1] = " ")
            /\ (p[2] = Len(q) \/ q[p[2] + 1] = " ")}}

(***************************************************************************)
(* Items and the matcher.                                                  *)
(***************************************************************************)
Item(label, value, haystack) ==
    [label |-> label, value |-> value, haystack |-> haystack]

\* a matcher that compares the query as it was typed
SimpleMatchesCaseSensitive(query, items) ==
    SelectSeq(items, LAMBDA item :
        \A part \in SplitWhitespace(query) : Contains(item.haystack, part))

\* SimpleMatcher::matches
SimpleMatches(query, items) ==
    LET q == ToLowercase(query)
    IN  SelectSeq(items, LAMBDA item :
            \A part \in SplitWhitespace(q) : Contains(item.haystack, part))

\* the matcher main() installs
Matches(query, items) == SimpleMatches(query, items)

\* ScoreType: the signed integers of ScoreBits bits
MinScore == 0 - 2 ^ (ScoreBits - 1)
MaxScore == 2 ^ (ScoreBits - 1) - 1
Scores == MinScore..MaxScore

\* the unary minus of ScoreType where overflow is not checked: it wraps
WrappingNeg(s) == ((0 - s - MinScore) % (2 ^ ScoreBits)) + MinScore

\* a pair goes behind every pair whose key is not greater: a stable sort
RECURSIVE InsertByKey(_, _)
InsertByKey(sorted, pair) ==
    IF sorted = <<>> THEN <<pair>>
    ELSE IF pair.key < sorted[Len(sorted)].key
         THEN Append(InsertByKey(SubSeq(sorted, 1, Len(sorted) - 1), pair),
                     sorted[Len(sorted)])
         ELSE Append(sorted, pair)

\* Itertools::sorted_by_key(|(score, _item)| -score): a stable sort
RECURSIVE SortedByKey(_)
SortedByKey(pairs) ==
    IF pairs = <<>> THEN <<>>
    ELSE InsertByKey(SortedByKey(SubSeq(pairs, 1, Len(pairs) - 1)),
                     [pairs[Len(pairs)] EXCEPT
                         !.key = WrappingNeg(pairs[Len(pairs)].score)])

\* FuzzyMatcher::matches.  scored[i] is what the scorer T answers for
\* items[i]: None, or Some(score).  With overflow checks (a debug build)
\* the negation of the lowest score panics; the key is asked for as soon
\* as there are two pairs to compare.
FuzzyMatches(scored, items, overflow_checks) ==
    LET at == SelectSeq([i \in 1..Len(items) |-> i], LAMBDA i : scored[i] # None)
        pairs == [k \in 1..Len(at) |->
                     [score |-> scored[at[k]][1], item |-> items[at[k]], key |-> 0]]
        sorted == SortedByKey(pairs)
    IN  IF /\ overflow_checks
           /\ Len(pairs) >= 2
           /\ \E k \in 1..Len(pairs) : pairs[k].score = MinScore
        THEN [panicked |-> TRUE, items |-> <<>>]
        ELSE [panicked |-> FALSE,
              items |-> [k \in 1..Len(sorted) |-> sorted[k].item]]

(***************************************************************************)
(* LoadedState (main.rs).  A ShuttleState is a record with tag "Loading"   *)
(* or "Loaded"; the Loading state carries empty fields.                    *)
(***************************************************************************)
Loading == [tag |-> "Loading", all |-> <<>>, filtered |-> None, selected |-> 0]

Loaded(all, filtered, selected) ==
    [tag |-> "Loaded", all |-> all, filtered |-> filtered, selected |-> selected]

\* Vec::get: Some(v[i]) for a 0-based index inside v, else None
Get(v, i) == IF 0 <= i /\ i < Len(v) THEN Some(v[i + 1]) ELSE None

\* Iterator::position over the items of an Option<Vec<Item>>: the 0-based
\* index of the first item with this value
Position(opt, value) ==
    LET items == IF opt = None THEN <<>> ELSE opt[1]
        hits == {i \in 1..Len(items) : items[i].value = value}
    IN  IF hits = {} THEN None
        ELSE Some((CHOOSE i \in hits : \A k \in hits : i <= k) - 1)

\* an update that narrows the list of all items along with the filtered one
UpdateFilteredNarrowsAll(ls, query) ==
    LET values_to_filter == IF ls.filtered = None THEN ls.all ELSE ls.filtered[1]
        filtered_new == Matches(ToLowercase(query), values_to_filter)
    IN  [ls EXCEPT !.selected = 0, !.all = filtered_new,
                   !.filtered = Some(filtered_new)]

\* LoadedState::update_filtered
UpdateFiltered(ls, query) ==
    LET q == ToLowercase(query)
        selected_value ==
            IF ls.filtered = None THEN None ELSE Get(ls.filtered[1], ls.selected)
        values_to_filter ==
            IF ls.filtered = None THEN ls.all ELSE ls.filtered[1]
        filtered_new == Matches(q, values_to_filter)
        \* the position is looked up in self.filtered, which still holds
        \* the list from before this update
        found ==
            IF selected_value = None THEN None
            ELSE Position(ls.filtered, selected_value[1].value)
    IN  [ls EXCEPT !.selected = IF found = None THEN 0 ELSE found[1],
                   !.filtered = Some(filtered_new)]

\* LoadedState::update_filtered_reset
UpdateFilteredReset(ls, query) ==
    IF query = <<>>
    THEN [ls EXCEPT !.filtered = Some(ls.all)]
    ELSE UpdateFiltered([ls EXCEPT !.filtered = None], query)

(***************************************************************************)
(* Input events (egui::Event) and the providers' data.                     *)
(***************************************************************************)
\* the characters the user types
TypedChars == {"a", " ", CapSigma}

Text(t) == [key |-> "Text", text |-> t]
Key(k) == [key |-> k, text |-> <<>>]

Events ==
    {Text(<<c>>) : c \in TypedChars} \cup
    {Key(k) : k \in {"Backspace", "CtrlW", "Escape", "Enter",
                     "ArrowUp", "ArrowDown"}}

\* the event lists one frame can deliver: none (a repaint), or up to MaxEvents
Frames == UNION {[1..n -> Events] : n \in 0..MaxEvents}

\* what the remote sources answer when they answer
Repositories == << [full_name |-> <<"a", "/", "a">>, html_url |-> <<"g", "1">>] >>

\* another answer of the same server: a repository whose full_name is also
\* the name of a job
RepositoriesTwin == << [full_name |-> <<CapSigma>>, html_url |-> <<"g", "2">>] >>

Jobs == << [name |-> <<"A", CapSigma, "a">>, url |-> <<"j", "1">>],
           [name |-> <<CapSigma>>, url |-> <<"j", "2">>] >>

\* impl From<Repository> for Item
FromRepository(repo) ==
    Item(repo.full_name, repo.html_url, repo.full_name)

\* impl From<Job> for Item
FromJob(job) ==
    Item(job.name, job.url, ToLowercase(job.name))

\* Result<T, E>
Ok(v) == [ok |-> TRUE, val |-> v]
Err == [ok |-> FALSE, val |-> <<>>]

\* the providers main() declares, in declaration order
Providers == <<"github", "jenkins">>

\* Provider::load: the request fails, or the answer is converted to Items
LoadOutcomes(p) ==
    IF p = "github"
    THEN {Err,
          Ok([i \in 1..Len(Repositories) |-> FromRepository(Repositories[i])]),
          Ok([i \in 1..Len(RepositoriesTwin) |->
                 FromRepository(RepositoriesTwin[i])])}
    ELSE {Err, Ok([i \in 1..Len(Jobs) |-> FromJob(Jobs[i])])}

(***************************************************************************)
(* Aggregation, ordering and the cache file (main.rs, load_items).         *)
(***************************************************************************)
\* String's Ord: lexicographic by scalar value, a proper prefix first
RECURSIVE StrLess(_, _)
StrLess(a, b) ==
    IF b = <<>> THEN FALSE
    ELSE IF a = <<>> THEN TRUE
    ELSE IF CodePoint(Head(a)) # CodePoint(Head(b))
         THEN CodePoint(Head(a)) < CodePoint(Head(b))
         ELSE StrLess(Tail(a), Tail(b))

\* a step of a sort that is not stable: x goes in front of its equals
RECURSIVE InsertBeforeEqual(_, _)
InsertBeforeEqual(sorted, x) ==
    IF sorted = <<>> THEN <<x>>
    ELSE IF ~StrLess(sorted[Len(sorted)].label, x.label)
         THEN Append(InsertBeforeEqual(SubSeq(sorted, 1, Len(sorted) - 1), x),
                     sorted[Len(sorted)])
         ELSE Append(sorted, x)

\* one step of a stable sort: x goes behind everything not greater than it
RECURSIVE InsertByLabel(_, _)
InsertByLabel(sorted, x) ==
    IF sorted = <<>> THEN <<x>>
    ELSE IF StrLess(x.label, sorted[Len(sorted)].label)
         THEN Append(InsertByLabel(SubSeq(sorted, 1, Len(sorted) - 1), x),
                     sorted[Len(sorted)])
         ELSE Append(sorted, x)

\* items.sort_by(|lhs, rhs| lhs.label.cmp(&rhs.label)): stable
RECURSIVE SortByLabel(_)
SortByLabel(items) ==
    IF items = <<>> THEN <<>>
    ELSE InsertByLabel(SortByLabel(SubSeq(items, 1, Len(items) - 1)),
                       items[Len(items)])

\* load_items_from_providers: the results in declaration order, flattened;
\* the first Err, if there is one, is the result
RECURSIVE TryCollect(_)
TryCollect(results) ==
    IF results = <<>> THEN Ok(<<>>)
    ELSE IF ~Head(results).ok THEN Err
    ELSE LET rest == TryCollect(Tail(results))
         IN  IF rest.ok THEN Ok(Head(results).val \o rest.val) ELSE Err

\* a collect that drops the failed providers and keeps the rest
RECURSIVE FlattenOks(_)
FlattenOks(results) ==
    IF results = <<>> THEN Ok(<<>>)
    ELSE LET rest == FlattenOks(Tail(results))
         IN  IF Head(results).ok THEN Ok(Head(results).val \o rest.val) ELSE rest

LoadItemsFromProviders(results) == TryCollect(results)

\* a writer that stores the label where the haystack belongs
ToWriterLabelAsHaystack(items) ==
    [valid |-> TRUE,
     json |-> [items |-> [i \in 1..Len(items) |->
                            << <<"label", items[i].label>>,
                               <<"value", items[i].value>>,
                               <<"haystack", items[i].label>> >>]]]

\* serde_json::to_writer of ItemCache { items }: one object per item, its
\* fields in declaration order
ToWriter(items) ==
    [valid |-> TRUE,
     json |-> [items |-> [i \in 1..Len(items) |->
                            << <<"label", items[i].label>>,
                               <<"value", items[i].value>>,
                               <<"haystack", items[i].haystack>> >>]]]

\* a file that does not hold an ItemCache: empty, cut short, or not JSON
Garbage == [valid |-> FALSE, json |-> [items |-> <<>>]]

Field(object, key) ==
    (CHOOSE member \in {object[i] : i \in 1..Len(object)} : member[1] = key)[2]

\* a cache load that sorts what it read
LoadItemsFromCacheSorted(content) ==
    IF content.valid
    THEN Ok(SortByLabel([i \in 1..Len(content.json.items) |->
                            Item(Field(content.json.items[i], "label"),
                                 Field(content.json.items[i], "value"),
                                 Field(content.json.items[i], "haystack"))]))
    ELSE Err

\* load_items_from_cache: serde_json::from_reader into ItemCache
LoadItemsFromCache(content) ==
    IF content.valid
    THEN Ok([i \in 1..Len(content.json.items) |->
                Item(Field(content.json.items[i], "label"),
                     Field(content.json.items[i], "value"),
                     Field(content.json.items[i], "haystack"))])
    ELSE Err

\* a snapshot found on disk at the first start, written by anyone
Snapshot0 == ToWriter(<< FromJob(Jobs[2]), FromJob(Jobs[1]) >>)

(***************************************************************************)
(* ShuttleApp::handle_events.                                              *)
(***************************************************************************)
\* str::trim_end: the length left after dropping trailing whitespace
RECURSIVE TrimEndLen(_)
TrimEndLen(q) ==
    IF q # <<>> /\ q[Len(q)] = " " THEN TrimEndLen(SubSeq(q, 1, Len(q) - 1))
    ELSE Len(q)

\* str::rfind(' '): Some(0-based index of the last space), or None
RFindSpace(q) ==
    LET at == {i \in 1..Len(q) : q[i] = " "}
    IN  IF at = {} THEN None
        ELSE Some((CHOOSE i \in at : \A k \in at : k <= i) - 1)

\* the locals of handle_events before the first event
NoInput(q) ==
    [query |-> q, require_update |-> FALSE, require_reset |-> FALSE,
     move_steps |-> 0, launch |-> FALSE, quit |-> FALSE]

\* a loop body whose Backspace asks for the incremental update
ReadEventBackspaceUpdates(in, event) ==
    CASE event.key = "Text" ->
            [in EXCEPT !.query = @ \o event.text, !.require_update = TRUE]
      [] event.key = "Backspace" ->
            IF in.query = <<>> THEN in
            ELSE [in EXCEPT !.query = SubSeq(@, 1, Len(@) - 1),
                            !.require_update = TRUE]
      [] event.key = "CtrlW" ->
            LET pos == RFindSpace(SubSeq(in.query, 1, TrimEndLen(in.query)))
            IN  IF pos # None
                THEN [in EXCEPT !.query = SubSeq(@, 1, pos[1] + 1),
                                !.require_reset = TRUE]
                ELSE [in EXCEPT !.query = <<>>, !.require_reset = TRUE]
      [] event.key = "Escape" -> [in EXCEPT !.quit = TRUE]
      [] event.key = "Enter" -> [in EXCEPT !.launch = TRUE]
      [] event.key = "ArrowUp" -> [in EXCEPT !.move_steps = @ - 1]
      [] event.key = "ArrowDown" -> [in EXCEPT !.move_steps = @ + 1]
      [] OTHER -> in

\* one arm of the match on an event
ReadEvent(in, event) ==
    CASE event.key = "Text" ->
            [in EXCEPT !.query = @ \o event.text, !.require_update = TRUE]
      [] event.key = "Backspace" ->
            IF in.query = <<>> THEN in
            ELSE [in EXCEPT !.query = SubSeq(@, 1, Len(@) - 1),
                            !.require_reset = TRUE]
      [] event.key = "CtrlW" ->
            LET pos == RFindSpace(SubSeq(in.query, 1, TrimEndLen(in.query)))
            IN  IF pos # None
                THEN [in EXCEPT !.query = SubSeq(@, 1, pos[1] + 1),
                                !.require_reset = TRUE]
                ELSE [in EXCEPT !.query = <<>>, !.require_reset = TRUE]
      [] event.key = "Escape" -> [in EXCEPT !.quit = TRUE]
      [] event.key = "Enter" -> [in EXCEPT !.launch = TRUE]
      [] event.key = "ArrowUp" -> [in EXCEPT !.move_steps = @ - 1]
      [] event.key = "ArrowDown" -> [in EXCEPT !.move_steps = @ + 1]
      [] OTHER -> in

\* the loop over ctx.input().events
RECURSIVE ReadEvents(_, _)
ReadEvents(in, events) ==
    IF events = <<>> THEN in
    ELSE ReadEvents(ReadEvent(in, Head(events)), Tail(events))

\* the remainder the % operator gives: it keeps the sign of the dividend
RemTruncated(a, n) == IF a >= 0 THEN a % n ELSE 0 - ((0 - a) % n)

\* i32::rem_euclid for a positive modulus
RemEuclid(a, n) == a % n

\* a selection that is brought into the list only when an arrow key was pressed
MoveSelectionOnlyOnMove(ls, move_steps) ==
    IF ls.filtered # None /\ ls.filtered[1] # <<>> /\ move_steps # 0
    THEN [ls EXCEPT !.selected = (@ + move_steps) % Len(ls.filtered[1])]
    ELSE ls

\* the selection after the frame's arrow keys: wraps around the filtered
\* list, and is left alone when there is no list or an empty one
MoveSelection(ls, move_steps) ==
    IF ls.filtered # None /\ ls.filtered[1] # <<>>
    THEN [ls EXCEPT !.selected = RemEuclid(@ + move_steps, Len(ls.filtered[1]))]
    ELSE ls

\* an update that runs only when an edit of the frame asked for one
RefilterOnRequestOnly(ls, in) ==
    IF in.require_reset THEN UpdateFilteredReset(ls, in.query)
    ELSE IF in.require_update THEN UpdateFiltered(ls, in.query)
    ELSE ls

\* the update of the filtered list the frame's edits ask for
Refilter(ls, in) ==
    IF in.require_reset \/ ls.filtered = None
    THEN UpdateFilteredReset(ls, in.query)
    ELSE IF in.require_update THEN UpdateFiltered(ls, in.query)
    ELSE ls

\* a launch that takes the first item whatever is selected
LaunchTargetFirst(ls, in) ==
    IF in.launch /\ ls.filtered # None /\ Get(ls.filtered[1], 0) # None
    THEN Some(Get(ls.filtered[1], 0)[1].value)
    ELSE None

\* Some(the url to launch) when Enter was pressed and an item is selected
LaunchTarget(ls, in) ==
    IF in.launch /\ ls.filtered # None /\ Get(ls.filtered[1], ls.selected) # None
    THEN Some(Get(ls.filtered[1], ls.selected)[1].value)
    ELSE None

\* the match on the state, after the loop: the state, the launched url and
\* the quit request the frame ends with
HandleInput(st, in) ==
    IF st.tag = "Loading"
    THEN [query |-> in.query, state |-> st, launched |-> None, quit |-> in.quit]
    ELSE LET finish(ls) ==
                 LET target == LaunchTarget(ls, in)
                 IN  [query |-> in.query, state |-> ls, launched |-> target,
                      quit |-> in.quit \/ target # None]
         IN  finish(MoveSelection(Refilter(st, in), in.move_steps))

\* handle_events as a function of the query, the state and the frame's events
HandleEvents(q, st, events) == HandleInput(st, ReadEvents(NoInput(q), events))

(***************************************************************************)
(* The state.                                                              *)
(***************************************************************************)
VARIABLES
    query,      \* ShuttleApp.query
    state,      \* ShuttleApp.state, the Mutex<ShuttleState>
    quit,       \* frame.quit() was called, or exec replaced the process
    launched,   \* Option: the url handed to launch()
    cacheFile,  \* Option: the content of /tmp/shuttle.cache
    loaderPc,   \* where the spawned loader thread stands
    fp,         \* Option: what File::open gave the loader
    provResult, \* per provider: None, or Some(the Result of its load())
    items,      \* the loader's items
    run,        \* the number of this start of the program
    uiPc,       \* where App::update stands: "events" or "paint"
    lastFrame,  \* history: Some(the events of the latest frame handled in a
                \* Loaded state, with the query and the state before it)
    coldItems,  \* history: None, or Some(the items the last cold run returned)
    coldFailed, \* history: a provider failed in the cold run of the start before
    scored,     \* per item of a call of FuzzyMatcher::matches: the scorer's answer
    ranked      \* Option: what that call gave

vars == <<query, state, quit, launched, cacheFile, loaderPc, fp, provResult,
          items, run, uiPc, lastFrame, coldItems, coldFailed, scored, ranked>>

uiVars == <<query, state, quit, launched, uiPc, lastFrame>>
loaderVars == <<loaderPc, fp, provResult, items>>
matcherVars == <<scored, ranked>>

ProviderIds == {Providers[i] : i \in 1..Len(Providers)}

\* ShuttleApp::new and create_app: Loading, empty query, loader spawned
Init ==
    /\ query = <<>>
    /\ state = Loading
    /\ quit = FALSE
    /\ launched = None
    /\ cacheFile \in {None, Some(Garbage), Some(Snapshot0)}
    /\ loaderPc = "open"
    /\ fp = None
    /\ provResult = [p \in ProviderIds |-> None]
    /\ items = <<>>
    /\ run = 1
    /\ uiPc = "events"
    /\ lastFrame = None
    /\ coldItems = None
    /\ coldFailed = FALSE
    /\ scored = <<>>
    /\ ranked = None

(***************************************************************************)
(* The UI thread.  App::update is handle_events and then paint; each takes *)
(* the lock on the state for itself.                                       *)
(***************************************************************************)
Frame(events) ==
    /\ ~quit /\ uiPc = "events"
    /\ uiPc' = "paint"
    /\ \E out \in {HandleEvents(query, state, events)} :
           /\ Len(out.query) <= MaxQuery
           /\ query' = out.query
           /\ state' = out.state
           /\ launched' = out.launched
           /\ quit' = out.quit
    /\ lastFrame' = IF state.tag = "Loaded"
                    THEN Some([events |-> events, query |-> query, state |-> state])
                    ELSE None
    /\ UNCHANGED <<cacheFile, loaderVars, run, coldItems, coldFailed, matcherVars>>

\* paint: locks the state again and draws the spinner, or the rows of
\* filtered with the selected one highlighted; it writes nothing
Paint ==
    /\ uiPc = "paint"
    /\ uiPc' = "events"
    /\ UNCHANGED <<query, state, quit, launched, lastFrame, cacheFile,
                   loaderVars, run, coldItems, coldFailed, matcherVars>>

(***************************************************************************)
(* The loader thread create_app spawns: load_items, then the hand-off.     *)
(***************************************************************************)
\* a load that creates the cache file before it asks the providers
OpenCacheCreatesFile ==
    /\ ~quit /\ loaderPc = "open"
    /\ fp' = cacheFile
    /\ IF cacheFile # None
       THEN LET r == LoadItemsFromCache(cacheFile[1])
            IN  /\ items' = (IF r.ok THEN r.val ELSE <<>>)
                /\ loaderPc' = (IF r.ok THEN "handoff" ELSE "panicked")
                /\ UNCHANGED cacheFile
       ELSE /\ items' = <<>>
            /\ loaderPc' = "providers"
            /\ cacheFile' = Some(Garbage)
    /\ UNCHANGED <<uiVars, provResult, run, coldItems, coldFailed, matcherVars>>

\* load_items: File::open, and load_items_from_cache when it opens
OpenCache ==
    /\ ~quit /\ loaderPc = "open"
    /\ fp' = cacheFile
    /\ IF cacheFile # None
       THEN LET r == LoadItemsFromCache(cacheFile[1])
            IN  /\ items' = (IF r.ok THEN r.val ELSE <<>>)
                /\ loaderPc' = (IF r.ok THEN "handoff" ELSE "panicked")
       ELSE /\ items' = <<>>
            /\ loaderPc' = "providers"
    /\ UNCHANGED <<uiVars, cacheFile, provResult, run, coldItems, coldFailed,
                   matcherVars>>

\* one provider's load() returns, in whatever order the pool runs them
ProviderLoad(p) ==
    /\ ~quit /\ loaderPc = "providers"
    /\ provResult[p] = None
    /\ \E r \in LoadOutcomes(p) : provResult' = [provResult EXCEPT ![p] = Some(r)]
    /\ UNCHANGED <<uiVars, cacheFile, loaderPc, fp, items, run, coldItems,
                   coldFailed, matcherVars>>

\* every provider returned: collect, and sort by label
Join ==
    /\ ~quit /\ loaderPc = "providers"
    /\ \A p \in ProviderIds : provResult[p] # None
    /\ \E r \in {LoadItemsFromProviders(
                    [i \in 1..Len(Providers) |-> provResult[Providers[i]][1]])} :
           /\ items' = (IF r.ok THEN SortByLabel(r.val) ELSE <<>>)
           /\ loaderPc' = (IF r.ok THEN "create" ELSE "panicked")
    /\ UNCHANGED <<uiVars, cacheFile, fp, provResult, run, coldItems, coldFailed,
                   matcherVars>>

\* File::create: the cache file exists and is empty
StoreCreate ==
    /\ ~quit /\ loaderPc = "create"
    /\ cacheFile' = Some(Garbage)
    /\ loaderPc' = "write"
    /\ UNCHANGED <<uiVars, fp, provResult, items, run, coldItems, coldFailed,
                   matcherVars>>

\* serde_json::to_writer, and load_items returns the items
StoreWrite ==
    /\ ~quit /\ loaderPc = "write"
    /\ cacheFile' = Some(ToWriter(items))
    /\ coldItems' = Some(items)
    /\ loaderPc' = "handoff"
    /\ UNCHANGED <<uiVars, fp, provResult, items, run, coldFailed, matcherVars>>

\* *state = ShuttleState::Loaded(..), under the lock
HandOff ==
    /\ ~quit /\ loaderPc = "handoff"
    /\ state' = Loaded(items, None, 0)
    /\ loaderPc' = "done"
    /\ lastFrame' = None
    /\ UNCHANGED <<query, quit, launched, uiPc, cacheFile, fp, provResult,
                   items, run, coldItems, coldFailed, matcherVars>>

\* the process has ended and the program is started again
Restart ==
    /\ quit /\ run < MaxRuns
    /\ run' = run + 1
    /\ query' = <<>>
    /\ state' = Loading
    /\ quit' = FALSE
    /\ launched' = None
    /\ loaderPc' = "open"
    /\ fp' = None
    /\ provResult' = [p \in ProviderIds |-> None]
    /\ items' = <<>>
    /\ uiPc' = "events"
    /\ lastFrame' = None
    /\ coldFailed' = (fp = None /\ \E p \in ProviderIds :
                                     provResult[p] # None /\ ~provResult[p][1].ok)
    /\ UNCHANGED <<cacheFile, coldItems, matcherVars>>

Next ==
    \/ \E events \in Frames : Frame(events)
    \/ Paint
    \/ OpenCache
    \/ \E p \in ProviderIds : ProviderLoad(p)
    \/ Join
    \/ StoreCreate
    \/ StoreWrite
    \/ HandOff
    \/ Restart

Spec == Init /\ [][Next]_vars

\* a step of the loader thread
LoaderStep ==
    \/ OpenCache
    \/ \E p \in ProviderIds : ProviderLoad(p)
    \/ Join
    \/ StoreCreate
    \/ StoreWrite
    \/ HandOff

\* The loader is a thread of its own (thread::spawn): it is scheduled
\* whatever the UI thread does, its calls return, and the lock it waits for
\* at the hand-off is held by the UI thread only inside handle_events and
\* paint, which return.  So a loader step that stays possible is taken.
\* One run of the program: a session, from its start to its end.
NextFair ==
    \/ \E events \in Frames : Frame(events)
    \/ Paint
    \/ LoaderStep

FairSpec == Init /\ [][NextFair]_vars /\ WF_vars(LoaderStep)

(***************************************************************************)
(* FuzzyMatcher::matches on its own: one call, for every answer the scorer *)
(* can give for the items of a list.  main() does not install this         *)
(* matcher, so the session above never calls it.                           *)
(***************************************************************************)
\* the list the call is given
FuzzyItems ==
    [i \in 1..Len(Repositories) |-> FromRepository(Repositories[i])] \o
    [i \in 1..Len(Jobs) |-> FromJob(Jobs[i])]

InitFuzzy ==
    /\ query = <<>>
    /\ state = Loaded(FuzzyItems, None, 0)
    /\ quit = FALSE
    /\ launched = None
    /\ cacheFile = None
    /\ loaderPc = "done"
    /\ fp = None
    /\ provResult = [p \in ProviderIds |-> None]
    /\ items = FuzzyItems
    /\ run = 1
    /\ uiPc = "events"
    /\ lastFrame = None
    /\ coldItems = None
    /\ coldFailed = FALSE
    /\ scored \in [1..Len(FuzzyItems) -> {None} \cup {Some(s) : s \in Scores}]
    /\ ranked = None

\* the call, in a build with or without overflow checks
CallFuzzy(overflow_checks) ==
    /\ ranked = None
    /\ ranked' = Some(FuzzyMatches(scored, state.all, overflow_checks))
    /\ UNCHANGED <<uiVars, cacheFile, loaderVars, run, coldItems, coldFailed, scored>>

NextFuzzy == \E overflow_checks \in BOOLEAN : CallFuzzy(overflow_checks)

SpecFuzzy == InitFuzzy /\ [][NextFuzzy]_vars

(***************************************************************************)
(* Properties.  Pre is the Loaded state the latest frame started from, L   *)
(* and Lnew the filtered lists before and after it.                        *)
(***************************************************************************)
Framed == lastFrame # None
Pre == lastFrame[1].state
PreQuery == lastFrame[1].query
FrameEvents == lastFrame[1].events
L == Pre.filtered[1]
Lnew == state.filtered[1]

Values(list) == {list[i].value : i \in 1..Len(list)}

IsEdit(event) == event.key \in {"Text", "Backspace", "CtrlW"}

\* the latest frame held query edits only, and started with an item selected
EditedWithSelection ==
    /\ Framed
    /\ FrameEvents # <<>>
    /\ \A i \in 1..Len(FrameEvents) : IsEdit(FrameEvents[i])
    /\ Pre.filtered # None
    /\ Pre.selected < Len(L)
    /\ state.filtered # None

\* C1: selection preservation.  After a frame of query edits, if the item
\* that was selected is still in the filtered list, it is the selected one.
C1_SelectionPreserved ==
    (EditedWithSelection /\ L[Pre.selected + 1].value \in Values(Lnew))
        => /\ state.selected < Len(Lnew)
           /\ Lnew[state.selected + 1].value = L[Pre.selected + 1].value

\* C2: selection reset.  After a frame of query edits, if the item that was
\* selected is no longer in the filtered list, the selected index is 0.
\* (Stated where the new list has items, so that the index is one the
\* program reads.)
C2_SelectionReset ==
    (/\ EditedWithSelection
     /\ Lnew # <<>>
     /\ L[Pre.selected + 1].value \notin Values(Lnew))
        => state.selected = 0

\* C3: in every Loaded state with a non-empty filtered list, selected is an
\* index into it.
C3_SelectedInRange ==
    (state.tag = "Loaded" /\ state.filtered # None /\ state.filtered[1] # <<>>)
        => (0 <= state.selected /\ state.selected < Len(state.filtered[1]))

\* a frame narrowed the list to fewer items than the old index, and the
\* selection was brought back into it
C3_Witness ==
    /\ Framed
    /\ state.filtered # None /\ Lnew # <<>>
    /\ Pre.filtered # None
    /\ Pre.selected >= Len(Lnew)
    /\ state.selected < Len(Lnew)

\* C4: in every Loaded state whose filtered list is computed, it is the list
\* a full recompute gives: matches(query, all), or all for the empty query.
C4_FilteredIsFullRecompute ==
    (state.tag = "Loaded" /\ state.filtered # None)
        => state.filtered[1] =
               (IF query = <<>> THEN state.all ELSE Matches(query, state.all))

\* the commands of a frame applied one frame each, in arrival order; nothing
\* is applied once an item was launched
RECURSIVE OneAtATime(_, _)
OneAtATime(out, events) ==
    IF events = <<>> \/ out.launched # None THEN out
    ELSE LET next == HandleEvents(out.query, out.state, <<Head(events)>>)
         IN  OneAtATime([next EXCEPT !.quit = @ \/ out.quit], Tail(events))

\* C5: arrival order.  What a frame leaves (query, filtered, selected, the
\* launched url) is what its commands leave when applied one at a time.
C5_ArrivalOrder ==
    (Framed /\ FrameEvents # <<>>) =>
        LET one == OneAtATime([query |-> PreQuery, state |-> Pre,
                               launched |-> None, quit |-> FALSE], FrameEvents)
        IN  /\ query = one.query
            /\ state.filtered = one.state.filtered
            /\ state.selected = one.state.selected
            /\ launched = one.launched

\* the latest frame was this one key, pressed with a filtered list computed
Pressed(k) ==
    /\ Framed
    /\ FrameEvents = <<Key(k)>>
    /\ Pre.filtered # None

\* nothing but the selection changed in the latest frame
OnlySelectionMoved ==
    /\ query = PreQuery
    /\ state = [Pre EXCEPT !.selected = state.selected]
    /\ launched = None
    /\ ~quit

\* C6: navigation.  Down at the last index goes to 0 and up at 0 to the last
\* index, otherwise they move by one; on an empty list nothing changes.
C6_Navigation ==
    /\ (Pressed("ArrowDown") /\ L # <<>>) =>
            /\ OnlySelectionMoved
            /\ state.selected =
                   (IF Pre.selected = Len(L) - 1 THEN 0 ELSE Pre.selected + 1)
    /\ (Pressed("ArrowUp") /\ L # <<>>) =>
            /\ OnlySelectionMoved
            /\ state.selected =
                   (IF Pre.selected = 0 THEN Len(L) - 1 ELSE Pre.selected - 1)
    /\ ((Pressed("ArrowDown") \/ Pressed("ArrowUp")) /\ L = <<>>) =>
            (OnlySelectionMoved /\ state = Pre)

\* up was pressed at index 0 of a list of several items
C6_Witness ==
    /\ Pressed("ArrowUp")
    /\ Len(L) >= 2
    /\ Pre.selected = 0
    /\ state.selected = Len(L) - 1

\* Enter pressed while Loading changes nothing and launches nothing
EnterWhileLoadingIsNoOp ==
    state.tag = "Loading" =>
        HandleEvents(query, state, <<Key("Enter")>>) =
            [query |-> query, state |-> state, launched |-> None, quit |-> FALSE]

\* Enter on a non-empty filtered list launches the selected item and ends
\* the session
EnterLaunchesSelected ==
    (Pressed("Enter") /\ L # <<>>) =>
        /\ Pre.selected < Len(L)
        /\ launched = Some(L[Pre.selected + 1].value)
        /\ quit

\* the latest frame changed nothing and launched nothing
NoOp ==
    /\ query = PreQuery
    /\ state = Pre
    /\ launched = None
    /\ ~quit

\* C7 as claimed: Enter launches the selected item of a non-empty filtered
\* list and ends the session, and is a no-op while Loading and when the
\* filtered list is empty or absent.
C7_ActivationAsClaimed ==
    /\ EnterLaunchesSelected
    /\ EnterWhileLoadingIsNoOp
    /\ (Pressed("Enter") /\ L = <<>>) => NoOp
    /\ (Framed /\ FrameEvents = <<Key("Enter")>> /\ Pre.filtered = None) => NoOp

\* C7 as amended: as claimed for a filtered list that is present; when it is
\* absent, the frame first recomputes it from all with the reset update and
\* then activates on the recomputed list: it launches its first item, or
\* nothing if it is empty.
C7_Activation ==
    /\ EnterLaunchesSelected
    /\ EnterWhileLoadingIsNoOp
    /\ (Pressed("Enter") /\ L = <<>>) => NoOp
    /\ (Framed /\ FrameEvents = <<Key("Enter")>> /\ Pre.filtered = None) =>
            LET recomputed == IF PreQuery = <<>> THEN Pre.all
                              ELSE Matches(PreQuery, Pre.all)
            IN  /\ query = PreQuery
                /\ state = [Pre EXCEPT !.filtered = Some(recomputed)]
                /\ launched = (IF recomputed = <<>> THEN None
                               ELSE Some(recomputed[Pre.selected + 1].value))
                /\ quit = (recomputed # <<>>)

\* Enter launched an item that is not the first of the list
C7_Witness ==
    /\ Pressed("Enter")
    /\ Pre.selected > 0
    /\ launched = Some(L[Pre.selected + 1].value)

(***************************************************************************)
(* Properties of the loader and the cache.                                 *)
(***************************************************************************)
Returned(p) == provResult[p] # None
Failed(p) == Returned(p) /\ ~provResult[p][1].ok
Succeeded(p) == Returned(p) /\ provResult[p][1].ok

\* C8: fail-fast.  Once a provider of this run has failed, in whatever order
\* the providers return, the aggregation ends in the error: the loader holds
\* no items, writes no cache and hands nothing to the session.
C8_FailFast ==
    (\E p \in ProviderIds : Failed(p)) =>
        /\ loaderPc \in {"providers", "panicked"}
        /\ items = <<>>
        /\ state = Loading
        /\ cacheFile = None

\* the aggregation ended in the error although a provider had delivered
C8_Witness ==
    /\ loaderPc = "panicked"
    /\ \E p \in ProviderIds : Failed(p)
    /\ \E p \in ProviderIds : Succeeded(p) /\ provResult[p][1].val # <<>>

\* the records of a snapshot, as the triples they hold
Records(content) ==
    [i \in 1..Len(content.json.items) |->
        {content.json.items[i][k] : k \in 1..Len(content.json.items[i])}]

\* the items are the snapshot's records, one for one and in order
SameAsSnapshot(list, content) ==
    /\ Len(list) = Len(content.json.items)
    /\ \A i \in 1..Len(list) :
           Records(content)[i] = { <<"label", list[i].label>>,
                                   <<"value", list[i].value>>,
                                   <<"haystack", list[i].haystack>> }

\* C9: read-through.  When the cache file opened, no provider is invoked,
\* and the items loaded (and handed to the session) are the snapshot's, in
\* the snapshot's order; a provider is invoked only after the open failed.
C9_ReadThrough ==
    /\ fp # None => \A p \in ProviderIds : ~Returned(p)
    /\ (\E p \in ProviderIds : Returned(p)) =>
            (fp = None /\ loaderPc # "open")
    /\ (fp # None /\ loaderPc \in {"handoff", "done"}) =>
            /\ fp[1].valid
            /\ SameAsSnapshot(items, fp[1])
            /\ state.tag = "Loaded" => state.all = items

\* a snapshot whose labels are not in order was loaded as it is
C9_Witness ==
    /\ fp # None
    /\ state.tag = "Loaded"
    /\ SameAsSnapshot(state.all, fp[1])
    /\ \E i \in 1..(Len(state.all) - 1) :
           StrLess(state.all[i + 1].label, state.all[i].label)

\* C10: round trip.  A run that loads the cache a cold run wrote gets the
\* items that cold run stored and returned: same triples, same order.
C10_RoundTrip ==
    (coldItems # None /\ fp # None /\ loaderPc \in {"handoff", "done"}) =>
        /\ items = coldItems[1]
        /\ state.tag = "Loaded" => state.all = coldItems[1]

\* the run after a cold run is Loaded with that run's items
C10_Witness ==
    /\ run > 1
    /\ coldItems # None
    /\ fp # None
    /\ state.tag = "Loaded"
    /\ state.all = coldItems[1]
    /\ Len(state.all) = Len(Repositories) + Len(Jobs)
    /\ \E i \in 1..Len(state.all) : state.all[i].haystack # state.all[i].label

(***************************************************************************)
(* Properties of the load when the cache cannot be read or a provider      *)
(* fails.                                                                  *)
(***************************************************************************)
\* the loader opened a cache file that does not deserialize
OpenedCorrupt == fp # None /\ ~fp[1].valid

\* C11: cache read failure.  When the cache file opened but does not
\* deserialize, the load goes on with the providers (and from there to the
\* hand-off): it does not end in the error.
C11_CorruptCacheFallsBack ==
    OpenedCorrupt =>
        loaderPc \in {"providers", "create", "write", "handoff", "done"}

(***************************************************************************)
(* Properties of the matchers and of the providers' items.                 *)
(***************************************************************************)
\* t stands in q as a word: between two spaces, or a space and an end of q
IsToken(t, q) ==
    /\ t # <<>>
    /\ \A k \in 1..Len(t) : t[k] # " "
    /\ LET padded == <<" ">> \o q \o <<" ">>
           word == <<" ">> \o t \o <<" ">>
       IN  \E at \in 0..(Len(padded) - Len(word)) :
               SubSeq(padded, at + 1, at + Len(word)) = word

\* the words of q
Tokens(q) ==
    {t \in {SubSeq(q, i, j) : i \in 1..Len(q), j \in 1..Len(q)} : IsToken(t, q)}

\* hay holds t as a run of neighbouring characters
OccursIn(t, hay) ==
    \E at \in 0..(Len(hay) - Len(t)) : SubSeq(hay, at + 1, at + Len(t)) = t

\* out is the items of list at the positions in kept, in the order of list
IsSelection(out, list, kept) ==
    /\ Len(out) = Cardinality(kept)
    /\ \E f \in [1..Len(out) -> kept] :
           /\ \A a, b \in 1..Len(out) : a < b => f[a] < f[b]
           /\ \A a \in 1..Len(out) : out[a] = list[f[a]]

\* what the claim says of one call of the matcher
SimpleMatchesAsClaimed(q, list) ==
    LET words == Tokens(ToLowercase(q))
        kept == {i \in 1..Len(list) :
                    \A t \in words : OccursIn(t, list[i].haystack)}
    IN  /\ IsSelection(SimpleMatches(q, list), list, kept)
        /\ (\A k \in 1..Len(q) : q[k] = " ") => SimpleMatches(q, list) = list

\* C12: substring matcher.  SimpleMatcher::matches returns exactly the
\* items whose haystack holds every word of the lower-cased query, in the
\* order of the input and each once; for a query without words it returns
\* the input.  Checked for the query as typed and as update_filtered passes
\* it on, over the list of all items and over the filtered list.
C12_SubstringMatcher ==
    state.tag = "Loaded" =>
        \A q \in {query, ToLowercase(query)} :
            /\ SimpleMatchesAsClaimed(q, state.all)
            /\ state.filtered # None => SimpleMatchesAsClaimed(q, state.filtered[1])

\* a frame filtered by a query of two words, one of them typed in upper
\* case, and kept some of the items
C12_Witness ==
    /\ Framed
    /\ state.filtered # None
    /\ Cardinality(Tokens(query)) = 2
    /\ \E k \in 1..Len(query) : query[k] = CapSigma
    /\ Lnew = SimpleMatches(query, state.all)
    /\ Lnew # <<>>
    /\ Len(Lnew) < Len(state.all)

\* the characters a normalized haystack does not hold
NotNormalized == {"A", "/", "_"}

\* C13: haystack normalization.  No item a provider built (from a GitHub
\* repository or a Jenkins job) has an upper-case ASCII letter, a '/' or a
\* '_' in its haystack.
C13_HaystackNormalized ==
    \A p \in ProviderIds :
        Succeeded(p) =>
            \A i \in 1..Len(provResult[p][1].val) :
                \A k \in 1..Len(provResult[p][1].val[i].haystack) :
                    provResult[p][1].val[i].haystack[k] \notin NotNormalized

(***************************************************************************)
(* Properties of the session state across the two threads.                 *)
(***************************************************************************)
\* C14: the None sentinel is resolved before the next read.  Whenever paint
\* is about to take the lock and finds a Loaded state, its filtered list is
\* present.  (The claim adds that the list is the filter result for the
\* query; that part is C4's.)
C14_PaintReadsFiltered ==
    (uiPc = "paint" /\ state.tag = "Loaded") => state.filtered # None

\* every item of list is an item of all
Within(list, all) ==
    /\ Len(list) <= Len(all)
    /\ \A i \in 1..Len(list) :
           /\ \E k \in 1..Len(all) : all[k] = list[i]
           /\ list[i].value \in Values(all)

\* one step of a session, as C15 allows it
SessionStep ==
    /\ (state.tag = "Loaded" /\ run' = run) =>
            (state'.tag = "Loaded" /\ state'.all = state.all)
    /\ (state.tag = "Loading" /\ state'.tag = "Loaded") =>
            /\ loaderPc = "handoff" /\ loaderPc' = "done"
            /\ state'.all = items
    /\ (state'.tag = "Loaded" /\ state'.filtered # None) =>
            Within(state'.filtered[1], state'.all)

\* C15: within one run the state goes from Loading to Loaded only by the
\* loader's hand-off, which sets all, and a Loaded state stays Loaded with
\* the same all through every later step; the items of filtered are items
\* of all.
C15_LoadedOnceAllFixed == [][SessionStep]_vars

\* after the hand-off a frame of query edits narrowed filtered, and all is
\* still what the loader handed over
C15_Witness ==
    /\ loaderPc = "done"
    /\ EditedWithSelection
    /\ 0 < Len(Lnew) /\ Len(Lnew) < Len(L)
    /\ Len(L) = Len(state.all)
    /\ state.all = items
    /\ Pre.all = items

(***************************************************************************)
(* Properties of the cold run.                                             *)
(***************************************************************************)
\* the batches of the providers from the i-th on, in declaration order
RECURSIVE BatchesFrom(_)
BatchesFrom(i) ==
    IF i > Len(Providers) THEN <<>>
    ELSE provResult[Providers[i]][1].val \o BatchesFrom(i + 1)

\* out is a rearrangement of in with labels that never decrease, and items
\* of equal label in the order they have in in
IsStableSortByLabel(out, in) ==
    /\ Len(out) = Len(in)
    /\ \E from \in [1..Len(out) -> 1..Len(in)] :
           /\ \A i, j \in 1..Len(out) : i # j => from[i] # from[j]
           /\ \A i \in 1..Len(out) : out[i] = in[from[i]]
           /\ \A i, j \in 1..Len(out) :
                  i < j => \/ StrLess(out[i].label, out[j].label)
                           \/ /\ out[i].label = out[j].label
                              /\ from[i] < from[j]

\* the cold run of this start has its list
ColdListReady ==
    fp = None /\ loaderPc \in {"create", "write", "handoff", "done"}

\* C16: cold run.  Whatever order the providers returned in, the list of a
\* successful cold run is the providers' batches in declaration order,
\* stably sorted by label; that list is what the cache file and the session
\* are given.
C16_ColdRunSorted ==
    ColdListReady =>
        /\ \A p \in ProviderIds : Succeeded(p)
        /\ IsStableSortByLabel(items, BatchesFrom(1))
        /\ loaderPc \in {"handoff", "done"} =>
                (cacheFile # None /\ cacheFile[1].valid
                    /\ SameAsSnapshot(items, cacheFile[1]))
        /\ state.tag = "Loaded" => state.all = items

\* a cold run put two items of the same label, from two providers, behind
\* an item of a later provider, and kept the two in declaration order
C16_Witness ==
    /\ ColdListReady
    /\ state.tag = "Loaded"
    /\ items # BatchesFrom(1)
    /\ \E i \in 1..(Len(items) - 1) :
           /\ items[i].label = items[i + 1].label
           /\ items[i] \in {provResult[Providers[1]][1].val[k] :
                                k \in 1..Len(provResult[Providers[1]][1].val)}
           /\ items[i + 1] \in {provResult[Providers[2]][1].val[k] :
                                    k \in 1..Len(provResult[Providers[2]][1].val)}

(***************************************************************************)
(* Properties of the query edits.                                          *)
(***************************************************************************)
\* the query after delete-word: cut behind the last space that stands
\* before the last word, or emptied when there is no such space
AfterDeleteWord(q) ==
    LET words == {i \in 1..Len(q) : q[i] # " "}
        spaces == {i \in 1..Len(q) : q[i] = " " /\ \E w \in words : i < w}
    IN  IF spaces = {} THEN <<>>
        ELSE SubSeq(q, 1, CHOOSE i \in spaces : \A k \in spaces : k <= i)

\* the query after one edit
AfterEdit(q, event) ==
    CASE event.key = "Text" -> q \o event.text
      [] event.key = "Backspace" ->
            IF q = <<>> THEN q ELSE SubSeq(q, 1, Len(q) - 1)
      [] event.key = "CtrlW" -> AfterDeleteWord(q)

\* the query after the edits of a frame
RECURSIVE AfterEdits(_, _)
AfterEdits(q, events) ==
    IF events = <<>> THEN q
    ELSE AfterEdits(AfterEdit(q, Head(events)), Tail(events))

\* one of the edits is a delete-word, or a backspace that found a character
RECURSIVE Shortens(_, _)
Shortens(q, events) ==
    IF events = <<>> THEN FALSE
    ELSE \/ Head(events).key = "CtrlW"
         \/ Head(events).key = "Backspace" /\ q # <<>>
         \/ Shortens(AfterEdit(q, Head(events)), Tail(events))

\* the latest frame held query edits only, on a Loaded state
EditsOnly ==
    /\ Framed
    /\ FrameEvents # <<>>
    /\ \A i \in 1..Len(FrameEvents) : IsEdit(FrameEvents[i])

\* the latest frame held an append and a backspace or delete-word
MixedEdits ==
    /\ EditsOnly
    /\ \E i \in 1..Len(FrameEvents) : FrameEvents[i].key = "Text"
    /\ \E i \in 1..Len(FrameEvents) : FrameEvents[i].key \in {"Backspace", "CtrlW"}

\* the frame left what the incremental update, or the reset update, leaves
\* for the query it ended with
DidIncremental == state = MoveSelection(UpdateFiltered(Pre, query), 0)
DidReset == state = MoveSelection(UpdateFilteredReset(Pre, query), 0)

\* the clauses of C17 about one edit in a frame
SingleEdits ==
    /\ EditsOnly => (query = AfterEdits(PreQuery, FrameEvents) /\ launched = None)
    /\ (EditsOnly /\ Len(FrameEvents) = 1 /\ FrameEvents[1].key = "Text") =>
            DidIncremental
    /\ (EditsOnly /\ FrameEvents = <<Key("Backspace")>> /\ PreQuery # <<>>) =>
            (Len(query) = Len(PreQuery) - 1 /\ DidReset)
    /\ (EditsOnly /\ FrameEvents = <<Key("CtrlW")>>) => DidReset

\* C17 as claimed: append adds to the end of the query and triggers the
\* incremental update; backspace removes the last character of a non-empty
\* query and delete-word cuts behind the last space before the last word,
\* and both trigger the reset update; a frame with an append and a
\* backspace or delete-word does the reset update on the final query.
C17_EditsAsClaimed ==
    /\ SingleEdits
    /\ MixedEdits => DidReset

\* C17 as amended: as claimed, but a frame with an append and a backspace
\* does the reset update only when the backspace found a character to
\* remove; a backspace on the empty query triggers nothing, and a frame of
\* such backspaces and appends does the incremental update.
C17_Edits ==
    /\ SingleEdits
    /\ (MixedEdits /\ Shortens(PreQuery, FrameEvents)) => DidReset
    /\ (MixedEdits /\ ~Shortens(PreQuery, FrameEvents)) => DidIncremental

\* delete-word cut a query of two words behind the space, and the reset
\* update brought back items the longer query had filtered out
C17_Witness ==
    /\ EditsOnly
    /\ FrameEvents = <<Key("CtrlW")>>
    /\ Pre.filtered # None /\ state.filtered # None
    /\ query # <<>> /\ Len(query) < Len(PreQuery)
    /\ query[Len(query)] = " "
    /\ Len(Lnew) > Len(L)
    /\ DidReset

(***************************************************************************)
(* Properties of the fuzzy matcher (checked under SpecFuzzy).              *)
(***************************************************************************)
\* out is the items of list that have a score, by falling score, and in
\* the order of list where the scores are equal
IsRanking(out, list, score) ==
    LET with == {i \in 1..Len(list) : score[i] # None}
    IN  /\ Len(out) = Cardinality(with)
        /\ \E from \in [1..Len(out) -> with] :
               /\ \A a \in 1..Len(out) : out[a] = list[from[a]]
               /\ \A a, b \in 1..Len(out) :
                      a < b => \/ score[from[a]][1] > score[from[b]][1]
                               \/ /\ score[from[a]][1] = score[from[b]][1]
                                  /\ from[a] < from[b]

Edits(events) == SelectSeq(events, IsEdit)

\* ArrowDown presses minus ArrowUp presses among the events of a frame
NetMoves(events) ==
    Cardinality({i \in 1..Len(events) : events[i].key = "ArrowDown"})
        - Cardinality({i \in 1..Len(events) : events[i].key = "ArrowUp"})

\* while Loading a frame applies its edits to the query and nothing else:
\* the state stays Loading, and moves and Enter leave no trace
LoadingKeepsEdits ==
    state.tag = "Loading" =>
        \A events \in Frames :
            LET out == HandleEvents(query, state, events)
            IN  /\ out.query = AfterEdits(query, Edits(events))
                /\ out.state = Loading
                /\ out.launched = None

\* the latest frame is the first one after the hand-off
FirstFrameLoaded == Framed /\ Pre = Loaded(state.all, None, 0)

\* the first frame after the hand-off leaves the full recompute for the
\* query, with the selection at 0 moved by that frame's own arrow keys
FirstFrameResets ==
    FirstFrameLoaded =>
        LET recomputed == IF query = <<>> THEN state.all
                          ELSE Matches(query, state.all)
        IN  /\ query = AfterEdits(PreQuery, Edits(FrameEvents))
            /\ state.filtered = Some(recomputed)
            /\ state.selected =
                   (IF recomputed = <<>> THEN 0
                    ELSE NetMoves(FrameEvents) % Len(recomputed))

\* the load of this run will succeed: the cache file about to be opened
\* holds a snapshot, or every provider of the cold run has succeeded
LoadSucceeds ==
    \/ loaderPc = "open" /\ cacheFile # None /\ cacheFile[1].valid
    \/ \A p \in ProviderIds : Succeeded(p)

\* C19: if the load succeeds, the session becomes Loaded (unless the user
\* has ended it before); while Loading the query keeps the edits, and moves
\* and Enter are dropped; the first frame after the hand-off does the reset
\* update: filtered is matches(query, all), or all for the empty query,
\* and selected starts from 0.
C19_LoadedAfterLoad ==
    /\ [](LoadingKeepsEdits /\ FirstFrameResets)
    /\ LoadSucceeds ~> (state.tag = "Loaded" \/ quit)

\* a query typed while Loading was applied by the first frame after the
\* hand-off, which kept some of the items and selected the first
C19_Witness ==
    /\ FirstFrameLoaded
    /\ FrameEvents = <<>>
    /\ query # <<>>
    /\ state.filtered # None
    /\ 0 < Len(Lnew) /\ Len(Lnew) < Len(state.all)
    /\ state.selected = 0

(***************************************************************************)
(* Properties of a cold run that fails.                                    *)
(***************************************************************************)
\* a provider of this run's cold run has failed
ColdRunFails == fp = None /\ \E p \in ProviderIds : Failed(p)

\* C20: when a provider of a cold run fails, no cache file is created (there
\* was none, and there is none), and the state is Loading for the rest of
\* the run; the next start finds no cache file, and its load ends only
\* after every provider has been invoked again.
C20_FailedColdRun ==
    /\ ColdRunFails =>
            /\ cacheFile = None
            /\ state = Loading
            /\ loaderPc \in {"providers", "panicked"}
    /\ coldFailed =>
            /\ loaderPc = "open" => cacheFile = None
            /\ loaderPc # "open" => fp = None
            /\ loaderPc \in {"create", "write", "handoff", "done", "panicked"} =>
                    \A p \in ProviderIds : Returned(p)

\* the start after a failed cold run found no cache file, asked every
\* provider again, and this time was Loaded with their items
C20_Witness ==
    /\ run > 1
    /\ coldFailed
    /\ fp = None
    /\ \A p \in ProviderIds : Succeeded(p)
    /\ state.tag = "Loaded"
    /\ state.all # <<>>

====
